---- MODULE Spec2Model ----
(***************************************************************************)
(* Model of src/src/index.ts: the Express adapter around the               *)
(* agent-chain-optimizer library.                                          *)
(*                                                                         *)
(* Objects are modelled by reference: an Optimizer Handle is an index into *)
(* `handles`, a middleware closure an index into `middlewares`.  An        *)
(* optional JavaScript value is a sequence of length 0 (undefined) or 1    *)
(* (the value).  A path string is a sequence of units, each unit a piece   *)
(* of text; "/analyze" is one unit, so the call                            *)
(* String.prototype.replace('/analyze', '') is a search for a one-unit     *)
(* pattern, and the other units never join into "/analyze".                *)
(*                                                                         *)
(* Express runs the middleware and the route handler of a request          *)
(* synchronously (no function of index.ts awaits), so one request is in    *)
(* flight at a time: `req` holds it together with its response object.     *)
(***************************************************************************)
EXTENDS Naturals, Sequences, FiniteSets

VARIABLES handles, middlewares, apps, table, req

vars == <<handles, middlewares, apps, table, req>>

----------------------------------------------------------------------------
(* Bounds of the model *)

\* optimizer handles created in a run (an app creates two, a middleware one)
MaxHandles == 2
\* middleware passes of one request
MaxPasses == 1
\* executions the telemetry collector holds
MaxExecs == 2
\* units of a path override
MaxPathLen == 3

----------------------------------------------------------------------------
(* JavaScript values *)

None == <<>>
Some(v) == <<v>>

\* a ?? d
Coalesce(opt, d) == IF opt = None THEN d ELSE opt[1]

\* !x: undefined and the empty value are falsy, the other values truthy
FalsyString(opt) == opt = None \/ opt[1] = ""

\* a path string is falsy when undefined or empty
FalsyPath(opt) == opt = None \/ opt[1] = <<>>

\* least index at which pat occurs in s, 0 when it does not occur
IndexOf(s, pat) ==
  LET hits == {i \in 1..(Len(s) + 1) :
                 /\ i + Len(pat) - 1 <= Len(s)
                 /\ SubSeq(s, i, i + Len(pat) - 1) = pat}
  IN IF hits = {} THEN 0 ELSE CHOOSE i \in hits : \A j \in hits : i <= j

\* String.prototype.replace with a string pattern: the first occurrence only
Replace(s, pat, rep) ==
  LET i == IndexOf(s, pat)
  IN IF i = 0 THEN s
     ELSE SubSeq(s, 1, i - 1) \o rep \o SubSeq(s, i + Len(pat), Len(s))

\* obj[key] = value on an object literal: a later equal key overwrites
ObjSet(obj, key, value) ==
  [k \in (DOMAIN obj) \cup {key} |-> IF k = key THEN value ELSE obj[k]]

EmptyObject == [k \in {} |-> None]

----------------------------------------------------------------------------
(* Paths and configurations *)

AnalyzeSuffix == <<"/analyze">>
DefaultBasePath == <<"/api/optimizer">>

PathUnits == {"/analyze", "/custom"}

RECURSIVE SeqsUpTo(_, _)
SeqsUpTo(S, n) ==
  IF n = 0 THEN {<<>>}
  ELSE LET shorter == SeqsUpTo(S, n - 1)
       IN shorter \cup {Append(s, x) : s \in shorter, x \in S}

Paths == SeqsUpTo(PathUnits, MaxPathLen)

OptBool == {None, Some(TRUE), Some(FALSE)}

\* MiddlewareConfig: autoOptimize?, paths?: {analyze?}
ConfigsOver(P) ==
  [autoOptimize : OptBool,
   paths : {None} \cup {Some([analyze |-> a]) : a \in {None} \cup {Some(p) : p \in P}}]

AllConfigs == ConfigsOver(Paths)
NoPathConfigs == ConfigsOver({})

\* config.paths?.analyze
ConfigAnalyzePath(config) ==
  IF config.paths = None THEN None ELSE config.paths[1].analyze

----------------------------------------------------------------------------
(* The optimizer library, seen from the adapter *)

\* createOptimizer({autoOptimize}): a new handle; its reference is its index
CreateOptimizer(hs, autoOptimize) == Append(hs, [autoOptimize |-> autoOptimize])

Results == {"r1", "r2"}

\* what a call of an optimizer operation does: it returns a value, returns a
\* promise of that value (an asynchronous operation), or throws
ResultOutcomes ==
  [type : {"value", "promise"}, val : Results] \cup {[type |-> "throw", val |-> "error"]}

ExecutionIds == {"e1", "e2"}

\* the collections getWorkflowExecutions can return: each record has its id and
\* its own content (seq), so two records of a list are never the same record
ExecutionLists ==
  {[i \in 1..Len(ids) |-> [id |-> ids[i], seq |-> i]] : ids \in SeqsUpTo(ExecutionIds, MaxExecs)}

ExecOutcomes ==
  [type : {"value", "promise"}, val : ExecutionLists] \cup {[type |-> "throw", val |-> <<>>]}

Collector == [type |-> "value", val |-> "collector"]

----------------------------------------------------------------------------
(* Requests and responses *)

EmptyBody == [workflowId |-> None, workflow |-> None]

\* req.body: undefined when no body parser ran, else the parsed object
Bodies ==
  {None, Some(EmptyBody)}
    \cup {Some([EmptyBody EXCEPT !.workflowId = Some(w)]) : w \in {"", "wf-1", "wf-2"}}
    \cup {Some([EmptyBody EXCEPT !.workflow = Some(d)]) : d \in {"", "def-1", "def-2"}}

\* req.params: always an object
Params == {[executionId |-> e] : e \in {None, Some(""), Some("e1"), Some("e2")}}

Inputs ==
  {[body |-> b, params |-> [executionId |-> None]] : b \in Bodies}
    \cup {[body |-> b, params |-> p] : b \in {None, Some(EmptyBody)}, p \in Params}

NewReq(input) ==
  [body |-> input.body,
   params |-> input.params,
   workflowOptimizer |-> 0,
   workflowAnalysis |-> None,
   passes |-> 0,
   mw |-> 0,
   nextCalls |-> 0,
   statusCode |-> 200,
   sent |-> <<>>,
   calls |-> <<>>,
   threw |-> FALSE,
   handler |-> None]

\* res.status(code)
Status(r, code) == [r EXCEPT !.statusCode = code]

\* res.json(body): one response written, with the status set so far
Json(r, body) == [r EXCEPT !.sent = Append(@, [status |-> r.statusCode, body |-> body])]

ErrorBody(msg) == [error |-> msg]

\* an exception leaves the handler: nothing more is written by it
Throw(r) == [r EXCEPT !.threw = TRUE]

\* one call of an optimizer operation, with what it returned
Invoke(r, op, optimizer, arg, out) ==
  [r EXCEPT !.calls = Append(@, [op |-> op, handle |-> optimizer, arg |-> arg,
                                 ret |-> out, done |-> out.type # "promise"])]

----------------------------------------------------------------------------
(* createOptimizerMiddleware *)

\* config.autoOptimize ?? false
MiddlewareAutoOptimize(config) == Coalesce(config.autoOptimize, FALSE)

\* as MiddlewareFn, but control is not passed on
MiddlewareFnNoNext(optimizer, r) == [r EXCEPT !.workflowOptimizer = optimizer]

\* the returned closure: req.workflowOptimizer = optimizer; next()
MiddlewareFn(optimizer, r) ==
  [r EXCEPT !.workflowOptimizer = optimizer, !.nextCalls = @ + 1]

----------------------------------------------------------------------------
(* The four route handlers.  `optimizer` is the handle the closure holds,  *)
(* `out` what the optimizer operation does if the handler gets to call it. *)

\* as AnalyzeHandler, but the result of an asynchronous analyzeWorkflow is
\* awaited before it is stored and sent
AnalyzeHandlerAwaiting(optimizer, r, out) ==
  IF r.body = None THEN Throw(r)
  ELSE LET workflowId == r.body[1].workflowId
       IN IF FalsyString(workflowId)
          THEN Json(Status(r, 400), ErrorBody("workflowId is required"))
          ELSE LET called == Invoke(r, "analyzeWorkflow", optimizer, workflowId[1], out)
                   analysis == [type |-> "value", val |-> out.val]
               IN IF out.type = "throw" THEN Throw(called)
                  ELSE Json([called EXCEPT !.calls[Len(called.calls)].done = TRUE,
                                           !.workflowAnalysis = Some(analysis)], analysis)

\* as AnalyzeHandler, but the analysis is not kept on the request
AnalyzeHandlerNoStore(optimizer, r, out) ==
  IF r.body = None THEN Throw(r)
  ELSE LET workflowId == r.body[1].workflowId
       IN IF FalsyString(workflowId)
          THEN Json(Status(r, 400), ErrorBody("workflowId is required"))
          ELSE LET called == Invoke(r, "analyzeWorkflow", optimizer, workflowId[1], out)
               IN IF out.type = "throw" THEN Throw(called)
                  ELSE Json(called, out)

AnalyzeHandler(optimizer, r, out) ==
  IF r.body = None THEN Throw(r)     \* destructuring undefined: TypeError
  ELSE LET workflowId == r.body[1].workflowId
       IN IF FalsyString(workflowId)
          THEN Json(Status(r, 400), ErrorBody("workflowId is required"))
          ELSE LET called == Invoke(r, "analyzeWorkflow", optimizer, workflowId[1], out)
               IN IF out.type = "throw" THEN Throw(called)
                  ELSE Json([called EXCEPT !.workflowAnalysis = Some(out)], out)

OptimizeHandler(optimizer, r, out) ==
  IF r.body = None THEN Throw(r)     \* destructuring undefined: TypeError
  ELSE LET workflow == r.body[1].workflow
       IN IF FalsyString(workflow)
          THEN Json(Status(r, 400), ErrorBody("workflow is required"))
          ELSE LET called == Invoke(r, "optimizeWorkflow", optimizer, workflow[1], out)
               IN IF out.type = "throw" THEN Throw(called)
                  ELSE Json(called, out)

\* as MetricsHandler, but a request without a body is refused
MetricsHandlerValidating(optimizer, r, out) ==
  IF r.body = None THEN Json(Status(r, 400), ErrorBody("body is required"))
  ELSE LET collector == Invoke(r, "getTelemetryCollector", optimizer, <<>>, Collector)
           called == Invoke(collector, "getAggregatedMetrics", optimizer, <<>>, out)
       IN IF out.type = "throw" THEN Throw(called)
          ELSE Json(called, out)

MetricsHandler(optimizer, r, out) ==
  LET collector == Invoke(r, "getTelemetryCollector", optimizer, <<>>, Collector)
      called == Invoke(collector, "getAggregatedMetrics", optimizer, <<>>, out)
  IN IF out.type = "throw" THEN Throw(called)
     ELSE Json(called, out)

\* as Find, but the first record is taken whatever its id
FindFirstRecord(executions, executionId) ==
  IF executions = <<>> THEN None ELSE Some(executions[1])

\* executions.find(e => e.id === executionId): the first match, or undefined
Find(executions, executionId) ==
  LET hits == {i \in 1..Len(executions) : executions[i].id = executionId}
  IN IF hits = {} THEN None
     ELSE Some(executions[CHOOSE i \in hits : \A j \in hits : i <= j])

\* as CriticalPathHandler, but an execution that is not found is analysed as
\* an empty record instead of being refused
CriticalPathHandlerNo404(optimizer, r, execs, out) ==
  LET executionId == r.params.executionId
  IN IF FalsyString(executionId)
     THEN Json(Status(r, 400), ErrorBody("executionId is required"))
     ELSE LET collector == Invoke(r, "getTelemetryCollector", optimizer, <<>>, Collector)
              fetched == Invoke(collector, "getWorkflowExecutions", optimizer, <<>>, execs)
          IN IF execs.type = "throw" THEN Throw(fetched)
             ELSE IF execs.type = "promise" THEN Throw(fetched)
             ELSE LET execution == Find(execs.val, executionId[1])
                      called == Invoke(fetched, "analyzeExecutionCriticalPath", optimizer,
                                       IF execution = None
                                       THEN [id |-> executionId[1], seq |-> 0]
                                       ELSE execution[1], out)
                  IN IF out.type = "throw" THEN Throw(called)
                     ELSE Json(called, out)

CriticalPathHandler(optimizer, r, execs, out) ==
  LET executionId == r.params.executionId
  IN IF FalsyString(executionId)
     THEN Json(Status(r, 400), ErrorBody("executionId is required"))
     ELSE LET collector == Invoke(r, "getTelemetryCollector", optimizer, <<>>, Collector)
              fetched == Invoke(collector, "getWorkflowExecutions", optimizer, <<>>, execs)
          IN IF execs.type = "throw" THEN Throw(fetched)
             ELSE IF execs.type = "promise" THEN Throw(fetched)  \* a promise has no find
             ELSE LET execution == Find(execs.val, executionId[1])
                  IN IF execution = None
                     THEN Json(Status(fetched, 404), ErrorBody("Execution not found"))
                     ELSE LET called == Invoke(fetched, "analyzeExecutionCriticalPath",
                                               optimizer, execution[1], out)
                          IN IF out.type = "throw" THEN Throw(called)
                             ELSE Json(called, out)

\* the closures createXHandler(optimizer) return
CreateAnalyzeHandler(optimizer) == [kind |-> "analyze", optimizer |-> optimizer]
CreateOptimizeHandler(optimizer) == [kind |-> "optimize", optimizer |-> optimizer]
CreateMetricsHandler(optimizer) == [kind |-> "metrics", optimizer |-> optimizer]
CreateCriticalPathHandler(optimizer) == [kind |-> "criticalPath", optimizer |-> optimizer]

----------------------------------------------------------------------------
(* setupOptimizerRoutes and createOptimizerApp *)

\* as SetupOptimizerRoutes, but the critical-path entry takes the key of the
\* metrics entry
SetupOptimizerRoutesClash(optimizer, basePathArg) ==
  LET basePath == Coalesce(basePathArg, DefaultBasePath)
      o1 == ObjSet(EmptyObject, basePath \o <<"/analyze">>,
                   [method |-> "post", handler |-> CreateAnalyzeHandler(optimizer)])
      o2 == ObjSet(o1, basePath \o <<"/optimize">>,
                   [method |-> "post", handler |-> CreateOptimizeHandler(optimizer)])
      o3 == ObjSet(o2, basePath \o <<"/metrics">>,
                   [method |-> "get", handler |-> CreateMetricsHandler(optimizer)])
  IN ObjSet(o3, basePath \o <<"/metrics">>,
            [method |-> "get", handler |-> CreateCriticalPathHandler(optimizer)])

\* basePath is an optional argument; undefined takes the default
SetupOptimizerRoutes(optimizer, basePathArg) ==
  LET basePath == Coalesce(basePathArg, DefaultBasePath)
      o1 == ObjSet(EmptyObject, basePath \o <<"/analyze">>,
                   [method |-> "post", handler |-> CreateAnalyzeHandler(optimizer)])
      o2 == ObjSet(o1, basePath \o <<"/optimize">>,
                   [method |-> "post", handler |-> CreateOptimizeHandler(optimizer)])
      o3 == ObjSet(o2, basePath \o <<"/metrics">>,
                   [method |-> "get", handler |-> CreateMetricsHandler(optimizer)])
  IN ObjSet(o3, basePath \o <<"/critical-path/:executionId">>,
            [method |-> "get", handler |-> CreateCriticalPathHandler(optimizer)])

\* config.autoOptimize ?? true
AppAutoOptimize(config) == Coalesce(config.autoOptimize, TRUE)

\* config.paths?.analyze?.replace('/analyze', '') || '/api/optimizer'
AppBasePath(config) ==
  LET analyze == ConfigAnalyzePath(config)
      replaced == IF analyze = None THEN None
                  ELSE Some(Replace(analyze[1], AnalyzeSuffix, <<>>))
  IN IF FalsyPath(replaced) THEN DefaultBasePath ELSE replaced[1]

----------------------------------------------------------------------------------------------------------------------------------------
(* State machine *)

Init ==
  /\ handles = <<>>
  /\ middlewares = <<>>
  /\ apps = <<>>
  /\ table = None
  /\ req = None

\* createOptimizerMiddleware(config), called on its own
CreateOptimizerMiddleware(config) ==
  /\ Len(handles) + 1 <= MaxHandles
  /\ handles' = CreateOptimizer(handles, MiddlewareAutoOptimize(config))
  /\ middlewares' = Append(middlewares, [config |-> config, optimizer |-> Len(handles) + 1])
  /\ UNCHANGED <<apps, table, req>>

\* setupOptimizerRoutes(optimizer, basePath?), called on its own with a handle
\* the caller holds; the caller keeps the table it built last
SetupOptimizerRoutesCall(optimizer, basePathArg) ==
  /\ optimizer \in 1..Len(handles)
  /\ table' = Some([optimizer |-> optimizer, basePath |-> basePathArg,
                    routes |-> SetupOptimizerRoutes(optimizer, basePathArg)])
  /\ UNCHANGED <<handles, middlewares, apps, req>>

\* createOptimizerApp(config): the handle, then the middleware (which creates
\* its own handle), then the route table
CreateOptimizerApp(config) ==
  /\ Len(handles) + 2 <= MaxHandles
  /\ LET optimizer == Len(handles) + 1
         hs1 == CreateOptimizer(handles, AppAutoOptimize(config))
         hs2 == CreateOptimizer(hs1, MiddlewareAutoOptimize(config))
     IN /\ handles' = hs2
        /\ middlewares' = Append(middlewares, [config |-> config, optimizer |-> Len(hs1) + 1])
        /\ apps' = Append(apps, [config |-> config,
                                 optimizer |-> optimizer,
                                 middleware |-> Len(middlewares) + 1,
                                 routes |-> SetupOptimizerRoutes(optimizer,
                                                                 Some(AppBasePath(config)))])
  /\ UNCHANGED <<table, req>>

\* a request arrives
NewRequest(input) ==
  /\ req' = Some(NewReq(input))
  /\ UNCHANGED <<handles, middlewares, apps, table>>

\* the request passes through middleware m, before any route handler
RunMiddleware(m) ==
  /\ req # None
  /\ req[1].handler = None
  /\ req[1].passes < MaxPasses
  /\ m \in 1..Len(middlewares)
  /\ req' = Some(MiddlewareFn(middlewares[m].optimizer,
                              [req[1] EXCEPT !.passes = @ + 1, !.mw = m]))
  /\ UNCHANGED <<handles, middlewares, apps, table>>

\* every route table built so far
RouteTables ==
  {apps[a].routes : a \in 1..Len(apps)} \cup {table[i].routes : i \in 1..Len(table)}

\* the handler closures of a kind in them
Handlers(kind) ==
  UNION {{t[k].handler : k \in {x \in DOMAIN t : t[x].handler.kind = kind}}
         : t \in RouteTables}

Routed(h) == [req[1] EXCEPT !.handler = Some(h)]

RunAnalyze ==
  /\ req # None
  /\ req[1].handler = None
  /\ \E h \in Handlers("analyze"), out \in ResultOutcomes :
       req' = Some(AnalyzeHandler(h.optimizer, Routed(h), out))
  /\ UNCHANGED <<handles, middlewares, apps, table>>

RunOptimize ==
  /\ req # None
  /\ req[1].handler = None
  /\ \E h \in Handlers("optimize"), out \in ResultOutcomes :
       req' = Some(OptimizeHandler(h.optimizer, Routed(h), out))
  /\ UNCHANGED <<handles, middlewares, apps, table>>

RunMetrics ==
  /\ req # None
  /\ req[1].handler = None
  /\ \E h \in Handlers("metrics"), out \in ResultOutcomes :
       req' = Some(MetricsHandler(h.optimizer, Routed(h), out))
  /\ UNCHANGED <<handles, middlewares, apps, table>>

RunCriticalPath ==
  /\ req # None
  /\ req[1].handler = None
  /\ \E h \in Handlers("criticalPath"), execs \in ExecOutcomes, out \in ResultOutcomes :
       req' = Some(CriticalPathHandler(h.optimizer, Routed(h), execs, out))
  /\ UNCHANGED <<handles, middlewares, apps, table>>

\* an asynchronous operation of the optimizer completes
Settle(i) ==
  /\ req # None
  /\ i \in 1..Len(req[1].calls)
  /\ ~req[1].calls[i].done
  /\ req' = Some([req[1] EXCEPT !.calls[i].done = TRUE])
  /\ UNCHANGED <<handles, middlewares, apps, table>>

\* requests through the middlewares and the route handlers of an app
Next ==
  \/ \E config \in NoPathConfigs : CreateOptimizerMiddleware(config)
  \/ \E config \in NoPathConfigs : CreateOptimizerApp(config)
  \/ \E input \in Inputs : NewRequest(input)
  \/ \E m \in 1..Len(middlewares) : RunMiddleware(m)
  \/ RunAnalyze
  \/ RunOptimize
  \/ RunMetrics
  \/ RunCriticalPath
  \/ \E i \in 1..3 : Settle(i)     \* a handler makes three calls at most

Spec == Init /\ [][Next]_vars

\* the factories alone, over every configuration and base path
NextRoutes ==
  \/ \E config \in AllConfigs : CreateOptimizerApp(config)
  \/ \E optimizer \in 1..Len(handles), b \in {None} \cup {Some(p) : p \in Paths} :
       SetupOptimizerRoutesCall(optimizer, b)

SpecRoutes == Init /\ [][NextRoutes]_vars

----------------------------------------------------------------------------
(* Properties *)

\* the request in flight was given to a handler of this kind
Handled(kind) == req # None /\ req[1].handler # None /\ req[1].handler[1].kind = kind

\* the handle of the closure that handled it
Bound == req[1].handler[1].optimizer

\* the request lacks the input its handler requires
LacksInput ==
  \/ Handled("analyze") /\ (req[1].body = None \/ FalsyString(req[1].body[1].workflowId))
  \/ Handled("optimize") /\ (req[1].body = None \/ FalsyString(req[1].body[1].workflow))
  \/ Handled("criticalPath") /\ FalsyString(req[1].params.executionId)

RequiredMessage ==
  IF Handled("analyze") THEN "workflowId is required"
  ELSE IF Handled("optimize") THEN "workflow is required"
  ELSE "executionId is required"

Rejected400 ==
  /\ req[1].sent = <<[status |-> 400, body |-> ErrorBody(RequiredMessage)]>>
  /\ req[1].calls = <<>>
  /\ req[1].workflowAnalysis = None

\* C1: in the analyze, optimize and critical-path handlers a request that lacks
\* the required input (body.workflowId, body.workflow, params.executionId) gets
\* exactly one response, 400 with the handler's {error: ...} body, no optimizer
\* operation is invoked and workflowAnalysis is left unchanged.
C1_MissingInputRejected == LacksInput => Rejected400

\* The part of C1 the code keeps: it holds of every request whose body was
\* parsed into an object.
C1_ParsedBodyRejected ==
  (LacksInput /\ (Handled("criticalPath") \/ req[1].body # None)) => Rejected400

\* C2: a POST /analyze whose body carries a non-empty workflowId w makes the
\* analyze handler call analyzeWorkflow exactly once, with exactly w, on its
\* handle; unless that call throws, what it returned is stored as
\* req.workflowAnalysis and is the body of the one response, status 200.
C2_AnalyzePassThrough ==
  (Handled("analyze") /\ req[1].body # None /\ ~FalsyString(req[1].body[1].workflowId)) =>
    /\ Len(req[1].calls) = 1
    /\ req[1].calls[1].op = "analyzeWorkflow"
    /\ req[1].calls[1].handle = Bound
    /\ req[1].calls[1].arg = req[1].body[1].workflowId[1]
    /\ \/ req[1].calls[1].ret.type = "throw"
       \/ /\ req[1].workflowAnalysis = Some(req[1].calls[1].ret)
          /\ req[1].sent = <<[status |-> 200, body |-> req[1].calls[1].ret]>>

C2_Witness ==
  /\ Handled("analyze")
  /\ req[1].body # None
  /\ req[1].body[1].workflowId = Some("wf-2")
  /\ Len(req[1].calls) = 1
  /\ req[1].calls[1].arg = "wf-2"
  /\ req[1].sent = <<[status |-> 200, body |-> [type |-> "value", val |-> "r2"]]>>

\* C10: whatever the request carries, the metrics handler calls
\* getTelemetryCollector().getAggregatedMetrics() exactly once and, unless that
\* throws, writes one response, status 200, whose body is the returned value;
\* it never answers 400 or 404.
C10_MetricsPassThrough ==
  Handled("metrics") =>
    /\ Len(req[1].calls) = 2
    /\ req[1].calls[1].op = "getTelemetryCollector"
    /\ req[1].calls[2].op = "getAggregatedMetrics"
    /\ req[1].calls[1].handle = Bound /\ req[1].calls[2].handle = Bound
    /\ \A i \in 1..Len(req[1].sent) : req[1].sent[i].status \notin {400, 404}
    /\ \/ req[1].calls[2].ret.type = "throw"
       \/ req[1].sent = <<[status |-> 200, body |-> req[1].calls[2].ret]>>

C10_Witness ==
  /\ Handled("metrics")
  /\ req[1].body = None
  /\ req[1].params.executionId = Some("e1")
  /\ req[1].sent = <<[status |-> 200, body |-> [type |-> "value", val |-> "r1"]]>>

----------------------------------------------------------------------------
(* The critical-path handler *)

\* the handler got a collection from getWorkflowExecutions
Fetched ==
  /\ Handled("criticalPath")
  /\ ~FalsyString(req[1].params.executionId)
  /\ Len(req[1].calls) >= 2
  /\ req[1].calls[2].op = "getWorkflowExecutions"
  /\ req[1].calls[2].ret.type = "value"

Executions == req[1].calls[2].ret.val

\* the places of the collection whose record has the requested id
Matches == {i \in 1..Len(Executions) : Executions[i].id = req[1].params.executionId[1]}

CriticalPathCalls ==
  {i \in 1..Len(req[1].calls) : req[1].calls[i].op = "analyzeExecutionCriticalPath"}

\* C5: a critical-path request with a non-empty executionId that no record of
\* the collection returned by getTelemetryCollector().getWorkflowExecutions()
\* carries (the empty collection included) gets exactly one response, 404 with
\* {error: "Execution not found"}, and analyzeExecutionCriticalPath is not
\* invoked.
C5_NoMatchIs404 ==
  (Fetched /\ Matches = {}) =>
    /\ req[1].sent = <<[status |-> 404, body |-> ErrorBody("Execution not found")]>>
    /\ CriticalPathCalls = {}

C5_Witness ==
  /\ Fetched
  /\ Matches = {}
  /\ Len(Executions) = MaxExecs
  /\ Len(req[1].sent) = 1
  /\ req[1].sent[1].status = 404

\* C6: when exactly one record of the collection has the requested id, wherever
\* it sits, analyzeExecutionCriticalPath is invoked exactly once, with that
\* record and no other; unless that call throws, what it returned is the body
\* of the one response, status 200.
C6_UniqueMatchAnalyzed ==
  (Fetched /\ Cardinality(Matches) = 1) =>
    /\ Len(req[1].calls) = 3
    /\ CriticalPathCalls = {3}
    /\ req[1].calls[3].handle = Bound
    /\ \A i \in Matches : req[1].calls[3].arg = Executions[i]
    /\ \/ req[1].calls[3].ret.type = "throw"
       \/ req[1].sent = <<[status |-> 200, body |-> req[1].calls[3].ret]>>

C6_Witness ==
  /\ Fetched
  /\ Matches = {2}
  /\ Len(req[1].calls) = 3
  /\ req[1].calls[3].arg = Executions[2]
  /\ req[1].sent = <<[status |-> 200, body |-> [type |-> "value", val |-> "r1"]]>>

----------------------------------------------------------------------------
(* Asynchronous optimizer operations *)

\* C7 as stated: a handler writes its response only after the optimizer
\* operation it invoked has completed, and the body (for analyze, also
\* req.workflowAnalysis) is the completed result, not a pending placeholder.
C7_ResponseAfterCompletion ==
  (req # None /\ req[1].handler # None /\ req[1].sent # <<>>) =>
    /\ \A i \in 1..Len(req[1].calls) : req[1].calls[i].done
    /\ req[1].sent[1].status = 200 => req[1].sent[1].body.type = "value"
    /\ req[1].workflowAnalysis # None => req[1].workflowAnalysis[1].type = "value"

\* a route handler runs on the request in flight
HandlerStep ==
  /\ req # None /\ req[1].handler = None
  /\ req' # None /\ req'[1].handler # None

\* C7, amended: a handler calls its optimizer operation and writes its response
\* in one synchronous step, with the value the call returned and without
\* awaiting it.  A synchronous operation has completed and the body is its
\* result; an asynchronous one is still pending when the response is written,
\* and the body (for analyze, also req.workflowAnalysis) is the pending promise;
\* an asynchronous getWorkflowExecutions makes the critical-path handler throw
\* with no response.
C7_NoAwait ==
  [][HandlerStep =>
       LET r == req'[1]
           n == Len(r.calls)
       IN \A i \in 1..n :
            LET c == r.calls[i]
            IN /\ c.done = (c.ret.type # "promise")
               /\ (i = n /\ r.sent # <<>> /\ r.sent[1].status = 200) =>
                    r.sent = <<[status |-> 200, body |-> c.ret]>>
               /\ (c.op = "analyzeWorkflow" /\ c.ret.type # "throw") =>
                    r.workflowAnalysis = Some(c.ret)
               /\ (c.op \in {"analyzeWorkflow", "optimizeWorkflow", "getAggregatedMetrics",
                             "analyzeExecutionCriticalPath"} /\ c.ret.type = "promise") =>
                    r.sent # <<>>
               /\ (c.op = "getWorkflowExecutions" /\ c.ret.type = "promise") =>
                    (r.threw /\ r.sent = <<>>)]_vars

C7_Witness ==
  /\ Handled("analyze")
  /\ Len(req[1].calls) = 1
  /\ ~req[1].calls[1].done
  /\ req[1].sent = <<[status |-> 200, body |-> [type |-> "promise", val |-> "r1"]]>>
  /\ req[1].workflowAnalysis = Some([type |-> "promise", val |-> "r1"])

----------------------------------------------------------------------------
(* The middleware and the app bundle *)

\* C8: a middleware built by createOptimizerMiddleware constructs exactly one
\* handle, at construction, with autoOptimize = config.autoOptimize ?? false,
\* and none when a request passes; every request that passes through it has
\* that handle as req.workflowOptimizer, next() has been called once per pass,
\* and no response is written, no operation invoked, before a route handler
\* runs.
C8_MiddlewareAttachesItsHandle ==
  /\ Len(handles) = Len(middlewares) + Len(apps)
  /\ \A m \in 1..Len(middlewares) :
       /\ middlewares[m].optimizer \in 1..Len(handles)
       /\ handles[middlewares[m].optimizer].autoOptimize =
            Coalesce(middlewares[m].config.autoOptimize, FALSE)
       /\ \A n \in 1..Len(middlewares) :
            middlewares[n].optimizer = middlewares[m].optimizer => n = m
  /\ req # None =>
       /\ req[1].nextCalls = req[1].passes
       /\ req[1].mw # 0 => req[1].workflowOptimizer = middlewares[req[1].mw].optimizer
       /\ req[1].mw = 0 => req[1].workflowOptimizer = 0
       /\ req[1].handler = None => (req[1].sent = <<>> /\ req[1].calls = <<>> /\ ~req[1].threw)

C8_Witness ==
  /\ req # None
  /\ req[1].passes = MaxPasses
  /\ req[1].nextCalls = MaxPasses
  /\ req[1].mw # 0
  /\ req[1].body # None
  /\ middlewares[req[1].mw].config.autoOptimize = None
  /\ req[1].workflowOptimizer = middlewares[req[1].mw].optimizer
  /\ ~handles[req[1].workflowOptimizer].autoOptimize

\* C3: the bundle of createOptimizerApp is built around one handle: the handle
\* its middleware attaches to a request is bundle.optimizer, which is also the
\* handle of its four route handlers, and it was constructed with autoOptimize
\* = config.autoOptimize ?? true.
C3_SingleHandle ==
  \A a \in 1..Len(apps) :
    /\ handles[apps[a].optimizer].autoOptimize = Coalesce(apps[a].config.autoOptimize, TRUE)
    /\ \A k \in DOMAIN apps[a].routes : apps[a].routes[k].handler.optimizer = apps[a].optimizer
    /\ middlewares[apps[a].middleware].optimizer = apps[a].optimizer
    /\ (req # None /\ req[1].mw = apps[a].middleware) =>
         req[1].workflowOptimizer = apps[a].optimizer

----------------------------------------------------------------------------
(* Route tables *)

EndsWithAnalyze(p) == Len(p) >= 1 /\ SubSeq(p, Len(p), Len(p)) = AnalyzeSuffix

\* p without a trailing "/analyze"
StripSuffix(p) == IF EndsWithAnalyze(p) THEN SubSeq(p, 1, Len(p) - 1) ELSE p

\* C4: createOptimizerApp takes as base path config.paths.analyze without a
\* trailing "/analyze" (the rest untouched), "/api/optimizer" only when there
\* is no override; so for an override p ending in "/analyze" the table has a
\* POST entry keyed exactly p.  (An empty override is read as no override.)
C4_BasePathFromOverride ==
  \A a \in 1..Len(apps) :
    LET override == ConfigAnalyzePath(apps[a].config)
        base == IF FalsyPath(override) THEN DefaultBasePath ELSE StripSuffix(override[1])
    IN /\ apps[a].routes = SetupOptimizerRoutes(apps[a].optimizer, Some(base))
       /\ (override # None /\ EndsWithAnalyze(override[1])) =>
            /\ override[1] \in DOMAIN apps[a].routes
            /\ apps[a].routes[override[1]].method = "post"

\* every table built, with the handle and the base path it was built from
BuiltTables ==
  {[optimizer |-> apps[a].optimizer, basePath |-> AppBasePath(apps[a].config),
    routes |-> apps[a].routes] : a \in 1..Len(apps)}
    \cup {[optimizer |-> table[i].optimizer,
           basePath |-> Coalesce(table[i].basePath, DefaultBasePath),
           routes |-> table[i].routes] : i \in 1..Len(table)}

\* C9: for every base path b (default "/api/optimizer") the table has exactly
\* four entries, b/analyze (post), b/optimize (post), b/metrics (get) and
\* b/critical-path/:executionId (get), pairwise distinct keys, each with the
\* handler of its operation bound to the given optimizer; building it starts no
\* request and invokes nothing.
C9_FourRoutes ==
  /\ req = None
  /\ \A t \in BuiltTables :
       LET b == t.basePath
           entry(k) == [method |-> t.routes[k].method, kind |-> t.routes[k].handler.kind,
                        optimizer |-> t.routes[k].handler.optimizer]
       IN /\ Cardinality(DOMAIN t.routes) = 4
          /\ DOMAIN t.routes = {b \o <<"/analyze">>, b \o <<"/optimize">>, b \o <<"/metrics">>,
                                b \o <<"/critical-path/:executionId">>}
          /\ entry(b \o <<"/analyze">>) =
               [method |-> "post", kind |-> "analyze", optimizer |-> t.optimizer]
          /\ entry(b \o <<"/optimize">>) =
               [method |-> "post", kind |-> "optimize", optimizer |-> t.optimizer]
          /\ entry(b \o <<"/metrics">>) =
               [method |-> "get", kind |-> "metrics", optimizer |-> t.optimizer]
          /\ entry(b \o <<"/critical-path/:executionId">>) =
               [method |-> "get", kind |-> "criticalPath", optimizer |-> t.optimizer]

C9_Witness ==
  /\ table # None
  /\ table[1].basePath = Some(<<"/custom">>)
  /\ DOMAIN table[1].routes =
       {<<"/custom", "/analyze">>, <<"/custom", "/optimize">>, <<"/custom", "/metrics">>,
        <<"/custom", "/critical-path/:executionId">>}

====
